---------------------------- MODULE Spec2Model ----------------------------
(***************************************************************************)
(* Handle-indirection bridge of three-js-4-wasm (src/index.ts,             *)
(* createContext): the object registry, the texture registry with its      *)
(* asynchronous addTexture, the loaded-path set and the object counter,    *)
(* the input encoder of the same context, and the guest bridge             *)
(* (runWasmModule) of the module-level build in src/vite.config.ts.        *)
(*                                                                         *)
(* Optional JavaScript values (an omitted argument, an absent userData     *)
(* field, a call that has not returned) are sequences of length 0 or 1.    *)
(* Fractions (texture repeat and offset) are pairs <<numerator,            *)
(* denominator>> in lowest terms.                                          *)
(* A texture's field ref is the identity of the THREE.Texture object: two  *)
(* records with one ref are one object, and a write through a reference    *)
(* reaches every record that has its ref.                                  *)
(***************************************************************************)
EXTENDS Integers, Sequences, FiniteSets, Bags, TLC

VARIABLES
    OBJECTS,          \* __OBJECTS: Map<number, Object3D>
    TEXTURES,         \* __TEXTURES: Map<number, Texture>
    LOADED_TEXTURES,  \* __LOADED_TEXTURES: Set<string>
    nextObjId,        \* __nextObjId
    initialized,      \* __camera, __scene, __renderer are set
    scene,            \* handles of the nodes that are children of __scene
    pending,          \* addTexture calls suspended at the await (a bag)
    last,             \* the most recent call: operation, arguments, outcome
    issued,           \* history: handles returned by successful creations
    resolved,         \* history: paths whose addTexture completed with success
    keysPressed,      \* bitmask of the keys that are down
    mouseMovementX,   \* accumulated movementX since the last read
    mouseMovementY,   \* accumulated movementY since the last read
    listening,        \* initInputListeners has registered the handlers
    recent,           \* history: the latest event of each mapped key
    moves,            \* history: the mouse movements since the last read
    reads,            \* history: words read since the last mouse-move event
    host,             \* module-level camera, scene, renderer: are they set
    initCalled,       \* history: the module-level init has been called
    imports,          \* the import table handed to WebAssembly.instantiate
    run,              \* the runWasmModule call suspended at instantiate
    frames,           \* history: step, render, frame events of the loop
    camera,           \* __camera: its position and the point it looks at
    background,       \* __scene.background
    canvas,           \* what the latest __renderer.render drew
    moduleOBJECTS,    \* module-level build: OBJECTS
    moduleNextObjId,  \* module-level build: nextObjId
    moduleTEXTURES,   \* module-level build: TEXTURES, keyed by path
    moduleLoading,    \* module-level build: loadAsync calls not settled (a bag)
    moduleIssued,     \* history: ids the module-level creations returned
    parked,           \* the state of the context of a second createContext call, if any
    active            \* which of the two contexts the variables above belong to

input == <<keysPressed, mouseMovementX, mouseMovementY, listening, recent,
           moves, reads>>

library == <<moduleOBJECTS, moduleNextObjId, moduleTEXTURES, moduleLoading,
             moduleIssued>>

bridge == <<host, initCalled, imports, run, frames, library>>

contexts == <<parked, active>>

stage == <<camera, background, canvas>>

vars == <<OBJECTS, TEXTURES, LOADED_TEXTURES, nextObjId, initialized, scene,
          pending, last, issued, resolved, input, bridge, stage, contexts>>

context == <<OBJECTS, TEXTURES, LOADED_TEXTURES, nextObjId, initialized,
             scene, pending, issued, resolved, stage>>

registry == <<OBJECTS, TEXTURES, LOADED_TEXTURES, nextObjId, scene>>

----------------------------------------------------------------------------
(* Bounds of the model *)

MaxObjects == 2
MaxPending == 2
MaxMoves == 2
MaxModuleIds == 4

(* Inputs.  Under Spec every operation of the context is called; position *)
(* vectors differ from a new node's, while the rotation, scale and frame   *)
(* arguments are the values a new node already has, so that those calls    *)
(* return their codes without multiplying the node states.                 *)

None == <<>>
Some(x) == <<x>>
Handles == 0..MaxObjects
GeometryInputs == {2001, 1001}
MaterialInputs == {1001, 2001}
Vectors == {<<1, 2, 3>>}
Rotations == {<<0, 0, 0>>}
Scales == {<<1, 1, 1>>}
Frames == {0}
CameraVectors == {<<1, 2, 3>>, <<0, 0, -5>>}
Colors == {0, 16711680}

\* arguments of the module-level build's operations
ClassNames == {"BoxGeometry", "MeshBasicMaterial", "Nope"}
ParamTexts == {"[]", "oops"}
ModulePaths == {"a.png"}
ModuleGridInputs == {None, Some(2)}
ModuleHandles == 0..MaxModuleIds

\* addTexture's arguments under Spec: a call with a grid and a call with
\* columns alone
Paths == {"a.png"}
TexIds == {1}
RowInputs == {None, Some(2)}
ColumnInputs == {Some(2)}

\* addTexture's arguments under SpecTextures
AllPaths == {"a.png", "b.png"}
AllTexIds == {1, 2}
AllRowInputs == {None, Some(0), Some(2)}
AllColumnInputs == {None, Some(2)}

\* SpecAtlas: one texture, loaded without a grid, as 2 rows of 4 frames or
\* as 4 rows of 4 frames, and frame coordinates inside and outside the grids
AtlasRowInputs == {None, Some(2), Some(4)}
AtlasColumnInputs == {None, Some(4)}
AtlasFramesX == {1, 3}
AtlasFramesY == {0, 2}

\* SpecKinds: kind codes at and around the edges of both enums, 1009 (the
\* code MaterialClass leaves out), and integers far from both
KindInputs == {-1, 0, 1000, 1001, 1008, 1009, 1010, 1012, 1013, 2000, 2001,
               2006, 2007}

\* SpecKeys: the mapped keys, the key value of the space bar, an upper-case
\* letter and a modifier; SpecMouse: movements at both ends of the signed
\* 16-bit range and small ones of both signs
KeyInputs == {"w", "a", "s", "d", "space", " ", "W", "Shift"}
DeltaInputs == {-32768, -1, 3, 4, 32767}

\* SpecBridge: modules whose instantiation rejects, gives no instance, or
\* gives an instance whose export step is absent, a number or a function;
\* caller import tables without and with names the host binds; init with
\* objects and with undefined arguments
Modules == {[result |-> "rejects", step |-> "undefined"],
            [result |-> "noExports", step |-> "undefined"],
            [result |-> "instance", step |-> "undefined"],
            [result |-> "instance", step |-> "number"],
            [result |-> "instance", step |-> "function"]}
CallerNames == {{}, {"log"}, {"log", "createObject"}, {"loadTexture"}}
CallerImports == {[n \in names |-> "caller"] : names \in CallerNames}

\* SpecGrid: one handle and one path, the grid arguments with 0 on both sides
GridRowInputs == {None, Some(0), Some(2)}
GridColumnInputs == {None, Some(0), Some(2)}

----------------------------------------------------------------------------
(* JavaScript values *)

\* if (x): undefined and 0 are falsy
Truthy(o) == o # None /\ o[1] # 0

Supplied(o) == o # None

RECURSIVE Gcd(_, _)
Gcd(a, b) == IF b = 0 THEN a ELSE Gcd(b, a % b)

Abs(n) == IF n < 0 THEN -n ELSE n

\* n / d of two numbers; d = 0 gives the non-finite <<n, 0>>
Frac(n, d) ==
    IF d = 0 THEN <<n, 0>>
    ELSE LET g == Gcd(Abs(n), Abs(d)) IN <<n \div g, d \div g>>

\* n / o where o is an optional number: n / undefined is NaN, <<0, 0>>
Div(n, o) == IF o = None THEN <<0, 0>> ELSE Frac(n, o[1])

Range(s) == {s[i] : i \in DOMAIN s}

Has(map, k) == k \in DOMAIN map

Put(map, k, v) == [x \in DOMAIN map \cup {k} |-> IF x = k THEN v ELSE map[x]]

----------------------------------------------------------------------------
(* enum GeometryClass, enum MaterialClass *)

GeometryClass == 2001..2006

\* mutant: the material codes without the gap at 1009
MaterialClass_Contiguous == 1001..1012
MaterialClass == (1001..1008) \cup (1010..1012)

\* mutant: two keys share a bit
keys_SharedBit == [w |-> 2^0, a |-> 2^1, s |-> 2^2, d |-> 2^3, space |-> 2^3]

\* const keys: Record<string, number>
keys == [w |-> 2^0, a |-> 2^1, s |-> 2^2, d |-> 2^3, space |-> 2^4]

----------------------------------------------------------------------------
(* THREE objects *)

NoGrid == [rows |-> None, columns |-> None]

\* a texture as the loader returns it: repeat (1, 1), offset (0, 0)
NewTexture(path) ==
    [path |-> path, userData |-> NoGrid, repeat |-> <<Frac(1, 1), Frac(1, 1)>>,
     offset |-> <<Frac(0, 1), Frac(0, 1)>>, ref |-> <<"loader">>]

NewNode(kind, map, userData, serial) ==
    [kind |-> kind, position |-> <<0, 0, 0>>, rotation |-> <<0, 0, 0>>,
     scale |-> <<1, 1, 1>>, map |-> map, userData |-> userData,
     serial |-> serial]

Returned(op, args, v) == [op |-> op, args |-> args, ret |-> Some(v), threw |-> FALSE]
Threw(op, args) == [op |-> op, args |-> args, ret |-> None, threw |-> TRUE]
Suspended(op, args) == [op |-> op, args |-> args, ret |-> None, threw |-> FALSE]

----------------------------------------------------------------------------
\* a camera as new THREE.PerspectiveCamera leaves it
NewCamera == [position |-> <<0, 0, 0>>, target |-> None]

\* the state createContext declares for the context it returns
NewContext ==
    [OBJECTS |-> <<>>, TEXTURES |-> <<>>, LOADED_TEXTURES |-> {},
     nextObjId |-> 0, initialized |-> FALSE, scene |-> {},
     pending |-> EmptyBag, issued |-> <<>>, resolved |-> {},
     camera |-> NewCamera, background |-> None, canvas |-> None,
     keysPressed |-> 0, mouseMovementX |-> 0, mouseMovementY |-> 0,
     listening |-> FALSE, recent |-> [k \in DOMAIN keys |-> "none"],
     moves |-> <<>>, reads |-> <<>>]

Init ==
    /\ OBJECTS = <<>>
    /\ TEXTURES = <<>>
    /\ LOADED_TEXTURES = {}
    /\ nextObjId = 0
    /\ initialized = FALSE
    /\ scene = {}
    /\ pending = EmptyBag
    /\ last = Suspended("createContext", <<>>)
    /\ issued = <<>>
    /\ resolved = {}
    /\ keysPressed = 0
    /\ mouseMovementX = 0
    /\ mouseMovementY = 0
    /\ listening = FALSE
    /\ recent = [k \in DOMAIN keys |-> "none"]
    /\ moves = <<>>
    /\ reads = <<>>
    /\ host = [camera |-> FALSE, scene |-> FALSE, renderer |-> FALSE]
    /\ initCalled = FALSE
    /\ imports = None
    /\ run = None
    /\ frames = <<>>
    /\ camera = NewCamera
    /\ background = None
    /\ canvas = None
    /\ moduleOBJECTS = <<>>
    /\ moduleNextObjId = 0
    /\ moduleTEXTURES = <<>>
    /\ moduleLoading = EmptyBag
    /\ moduleIssued = {}
    /\ parked = None
    /\ active = 1


----------------------------------------------------------------------------
(* createObject *)

\* GeometryClass[geometry] and MaterialClass[material] name a THREE class
\* exactly for the enum's codes; `new undefined()` throws inside the try
Constructible(geometry, material) ==
    geometry \in GeometryClass /\ material \in MaterialClass

\* mutants: the counter is not advanced; the id is taken after the increment
TakeId_NoBump(n) == [id |-> n, next |-> n]
TakeId_PreIncrement(n) == [id |-> n + 1, next |-> n + 1]

\* the id a creation returns and the counter it leaves
TakeId(n) == [id |-> n, next |-> n + 1]

\* mutant: the counter is advanced before the constructors are tried
createObjectEffect_BumpOnFail(geometry, material) ==
    IF Constructible(geometry, material)
    THEN [ret |-> nextObjId,
          objects |-> Put(OBJECTS, nextObjId,
                          NewNode("Mesh", None, NoGrid, Len(issued) + 1)),
          next |-> nextObjId + 1]
    ELSE [ret |-> -1, objects |-> OBJECTS, next |-> nextObjId + 1]

createObjectEffect(geometry, material) ==
    IF Constructible(geometry, material)
    THEN LET t == TakeId(nextObjId) IN
         [ret |-> t.id,
          objects |-> Put(OBJECTS, nextObjId,
                          NewNode("Mesh", None, NoGrid, Len(issued) + 1)),
          next |-> t.next]
    ELSE [ret |-> -1, objects |-> OBJECTS, next |-> nextObjId]

createObject(geometry, material) ==
    /\ Constructible(geometry, material) => nextObjId < MaxObjects
    /\ LET e == createObjectEffect(geometry, material) IN
         /\ OBJECTS' = e.objects
         /\ nextObjId' = e.next
         /\ last' = Returned("createObject", <<geometry, material>>, e.ret)
         /\ issued' = IF e.ret # -1 THEN Append(issued, e.ret) ELSE issued
    /\ UNCHANGED <<TEXTURES, LOADED_TEXTURES, initialized, scene, pending, resolved>>
    /\ UNCHANGED <<input, bridge, stage, contexts>>

----------------------------------------------------------------------------
(* addTexture *)

\* mutants: a check is left out
PathLoaded_Never(path) == FALSE
HandleTaken_Never(id) == FALSE

\* mutant: a path whose fetch is still outstanding counts as loaded
PathLoaded_OrPending(path) ==
    \/ path \in LOADED_TEXTURES
    \/ \E c \in BagToSet(pending) : c.path = path

PathLoaded(path) == path \in LOADED_TEXTURES

HandleTaken(id) == Has(TEXTURES, id)

\* (rows && !columns) || (!rows && columns)
GridIncomplete(rows, columns) ==
    \/ Truthy(rows) /\ ~Truthy(columns)
    \/ ~Truthy(rows) /\ Truthy(columns)

\* mutant: only the path is checked before the await
Rejected_PathOnly(id, path, rows, columns) == PathLoaded(path)

\* the three checks made before the await
Rejected(id, path, rows, columns) ==
    \/ PathLoaded(path)
    \/ HandleTaken(id)
    \/ GridIncomplete(rows, columns)

Call(id, path, rows, columns) ==
    [id |-> id, path |-> path, rows |-> rows, columns |-> columns]

\* the synchronous part of addTexture, up to the await
addTexture(id, path, rows, columns) ==
    /\ IF Rejected(id, path, rows, columns)
       THEN /\ last' = Returned("addTexture", <<id, path, rows, columns>>, -1)
            /\ UNCHANGED pending
       ELSE /\ BagCardinality(pending) < MaxPending
            /\ pending' = pending (+) SetToBag({Call(id, path, rows, columns)})
            /\ last' = Suspended("addTexture", <<id, path, rows, columns>>)
    /\ UNCHANGED <<OBJECTS, TEXTURES, LOADED_TEXTURES, nextObjId, initialized,
                   scene, issued, resolved>>
    /\ UNCHANGED <<input, bridge, stage, contexts>>

\* if (rows || columns) { texture.userData.rows = rows; ... }
LoadedTexture(c) ==
    IF Truthy(c.rows) \/ Truthy(c.columns)
    THEN [NewTexture(c.path) EXCEPT
            !.userData = [rows |-> c.rows, columns |-> c.columns],
            !.ref = <<"texture", c.id>>]
    ELSE [NewTexture(c.path) EXCEPT !.ref = <<"texture", c.id>>]

\* mutant: the texture is stored but its path is not marked in the same step
StoreTexture_PathNotMarked(c) ==
    [textures |-> Put(TEXTURES, c.id, LoadedTexture(c)),
     loaded |-> LOADED_TEXTURES]

\* the registry after the continuation of a call whose fetch succeeded
StoreTexture(c) ==
    [textures |-> Put(TEXTURES, c.id, LoadedTexture(c)),
     loaded |-> LOADED_TEXTURES \cup {c.path}]

\* loadAsync resolved: the rest of addTexture runs
addTextureLoaded(c) ==
    /\ BagIn(c, pending)
    /\ pending' = pending (-) SetToBag({c})
    /\ LET s == StoreTexture(c) IN
         /\ TEXTURES' = s.textures
         /\ LOADED_TEXTURES' = s.loaded
    /\ last' = Returned("addTexture.then", <<c.id, c.path, c.rows, c.columns>>, c.id)
    /\ resolved' = resolved \cup {c.path}
    /\ UNCHANGED <<OBJECTS, nextObjId, initialized, scene, issued>>
    /\ UNCHANGED <<input, bridge, stage, contexts>>

\* mutant: the path is marked loaded although the fetch failed
addTextureFailed_MarksPath(c) ==
    /\ BagIn(c, pending)
    /\ pending' = pending (-) SetToBag({c})
    /\ last' = Threw("addTexture.then", <<c.id, c.path, c.rows, c.columns>>)
    /\ LOADED_TEXTURES' = LOADED_TEXTURES \cup {c.path}
    /\ UNCHANGED <<OBJECTS, TEXTURES, nextObjId, initialized, scene, issued,
                   resolved>>
    /\ UNCHANGED <<input, bridge, stage, contexts>>

\* loadAsync rejected: the await throws and addTexture's promise rejects
addTextureFailed(c) ==
    /\ BagIn(c, pending)
    /\ pending' = pending (-) SetToBag({c})
    /\ last' = Threw("addTexture.then", <<c.id, c.path, c.rows, c.columns>>)
    /\ UNCHANGED <<OBJECTS, TEXTURES, LOADED_TEXTURES, nextObjId, initialized,
                   scene, issued, resolved>>
    /\ UNCHANGED <<input, bridge, stage, contexts>>

----------------------------------------------------------------------------
(* createSprite *)

\* mutant: rows and columns are exchanged in the repeat
WithGridRepeat_Swapped(texture) ==
    IF Truthy(texture.userData.rows) \/ Truthy(texture.userData.columns)
    THEN [texture EXCEPT !.repeat = <<Div(1, texture.userData.rows),
                                      Div(1, texture.userData.columns)>>]
    ELSE texture

\* texture.repeat.set(1 / columns, 1 / rows) when the texture has a grid
WithGridRepeat(texture) ==
    IF Truthy(texture.userData.rows) \/ Truthy(texture.userData.columns)
    THEN [texture EXCEPT !.repeat = <<Div(1, texture.userData.columns),
                                      Div(1, texture.userData.rows)>>]
    ELSE texture

\* mutants: the sprite's material gets the registry's texture itself; the
\* clone does not copy userData
Clone_Alias(texture, serial) == texture
Clone_NoUserData(texture, serial) ==
    [texture EXCEPT !.ref = <<"sprite", serial>>, !.userData = NoGrid]

\* texture.clone(): a new texture object with the same fields (userData is
\* copied too); it belongs to the sprite made by creation number serial
Clone(texture, serial) == [texture EXCEPT !.ref = <<"sprite", serial>>]

\* mutant: a sprite is registered, without a texture, when the lookup fails
createSpriteEffect_StoreOnFail(textureId) ==
    IF ~Has(TEXTURES, textureId)
    THEN [ret |-> -1,
          objects |-> Put(OBJECTS, nextObjId,
                          NewNode("Sprite", None, NoGrid, Len(issued) + 1)),
          textures |-> TEXTURES, next |-> nextObjId]
    ELSE LET texture == WithGridRepeat(TEXTURES[textureId]) IN
         [ret |-> nextObjId,
          objects |-> Put(OBJECTS, nextObjId,
                          NewNode("Sprite",
                                  Some(Clone(texture, Len(issued) + 1)),
                                  texture.userData, Len(issued) + 1)),
          textures |-> [TEXTURES EXCEPT ![textureId] = texture],
          next |-> nextObjId + 1]

\* mutant: the sprite is stored under the counter's value after the bump
createSpriteEffect_KeyAfterBump(textureId) ==
    IF ~Has(TEXTURES, textureId)
    THEN [ret |-> -1, objects |-> OBJECTS, textures |-> TEXTURES,
          next |-> nextObjId]
    ELSE LET texture == WithGridRepeat(TEXTURES[textureId])
             t == TakeId(nextObjId)
         IN  [ret |-> t.id,
              objects |-> Put(OBJECTS, t.next,
                              NewNode("Sprite",
                                      Some(Clone(texture, Len(issued) + 1)),
                                      texture.userData, Len(issued) + 1)),
              textures |-> [TEXTURES EXCEPT ![textureId] = texture],
              next |-> t.next]

createSpriteEffect(textureId) ==
    IF ~Has(TEXTURES, textureId)
    THEN [ret |-> -1, objects |-> OBJECTS, textures |-> TEXTURES,
          next |-> nextObjId]
    ELSE LET texture == WithGridRepeat(TEXTURES[textureId])
             t == TakeId(nextObjId)
         IN  [ret |-> t.id,
              objects |-> Put(OBJECTS, nextObjId,
                              NewNode("Sprite",
                                      Some(Clone(texture, Len(issued) + 1)),
                                      texture.userData, Len(issued) + 1)),
              textures |-> [TEXTURES EXCEPT ![textureId] = texture],
              next |-> t.next]

createSprite(textureId) ==
    /\ Has(TEXTURES, textureId) => nextObjId < MaxObjects
    /\ LET e == createSpriteEffect(textureId) IN
         /\ OBJECTS' = e.objects
         /\ TEXTURES' = e.textures
         /\ nextObjId' = e.next
         /\ last' = Returned("createSprite", <<textureId>>, e.ret)
         /\ issued' = IF e.ret # -1 THEN Append(issued, e.ret) ELSE issued
    /\ UNCHANGED <<LOADED_TEXTURES, initialized, scene, pending,
                   resolved>>
    /\ UNCHANGED <<input, bridge, stage, contexts>>

----------------------------------------------------------------------------
(* setPosition, setRotation, setScale *)

\* mutant: the vector is written to the wrong attribute
WithPosition_Scale(node, v) == [node EXCEPT !.scale = v]

WithPosition(node, v) == [node EXCEPT !.position = v]
WithRotation(node, v) == [node EXCEPT !.rotation = v]
WithScale(node, v) == [node EXCEPT !.scale = v]

\* const object = __OBJECTS.get(id); if (!object) return -1
Found(id) == Has(OBJECTS, id)

setPosition(id, v) ==
    /\ IF Found(id)
       THEN /\ OBJECTS' = [OBJECTS EXCEPT ![id] = WithPosition(@, v)]
            /\ last' = Returned("setPosition", <<id, v>>, 0)
       ELSE /\ last' = Returned("setPosition", <<id, v>>, -1)
            /\ UNCHANGED OBJECTS
    /\ UNCHANGED <<TEXTURES, LOADED_TEXTURES, nextObjId, initialized, scene,
                   pending, issued, resolved>>
    /\ UNCHANGED <<input, bridge, stage, contexts>>

setRotation(id, v) ==
    /\ IF Found(id)
       THEN /\ OBJECTS' = [OBJECTS EXCEPT ![id] = WithRotation(@, v)]
            /\ last' = Returned("setRotation", <<id, v>>, 0)
       ELSE /\ last' = Returned("setRotation", <<id, v>>, -1)
            /\ UNCHANGED OBJECTS
    /\ UNCHANGED <<TEXTURES, LOADED_TEXTURES, nextObjId, initialized, scene,
                   pending, issued, resolved>>
    /\ UNCHANGED <<input, bridge, stage, contexts>>

setScale(id, v) ==
    /\ IF Found(id)
       THEN /\ OBJECTS' = [OBJECTS EXCEPT ![id] = WithScale(@, v)]
            /\ last' = Returned("setScale", <<id, v>>, 0)
       ELSE /\ last' = Returned("setScale", <<id, v>>, -1)
            /\ UNCHANGED OBJECTS
    /\ UNCHANGED <<TEXTURES, LOADED_TEXTURES, nextObjId, initialized, scene,
                   pending, issued, resolved>>
    /\ UNCHANGED <<input, bridge, stage, contexts>>

----------------------------------------------------------------------------
(* addObjectToScene, removeObjectFromScene *)

\* mutant: __scene is used before the object is looked up
SceneCall_SceneFirst(id) ==
    IF ~initialized THEN "throw"
    ELSE IF ~Has(OBJECTS, id) THEN "missing"
    ELSE "done"

\* the outcome of the scene call: "missing" (return -1 before __scene is
\* read), "throw" (__scene is undefined: TypeError) or "done" (return 0)
SceneCall(id) ==
    IF ~Found(id) THEN "missing"
    ELSE IF ~initialized THEN "throw"
    ELSE "done"

addObjectToScene(id) ==
    /\ CASE SceneCall(id) = "missing" ->
              /\ last' = Returned("addObjectToScene", <<id>>, -1)
              /\ UNCHANGED scene
         [] SceneCall(id) = "throw" ->
              /\ last' = Threw("addObjectToScene", <<id>>)
              /\ UNCHANGED scene
         [] OTHER ->
              /\ scene' = scene \cup {id}
              /\ last' = Returned("addObjectToScene", <<id>>, 0)
    /\ UNCHANGED <<OBJECTS, TEXTURES, LOADED_TEXTURES, nextObjId, initialized,
                   pending, issued, resolved>>
    /\ UNCHANGED <<input, bridge, stage, contexts>>

\* mutant: detaching an object also deletes its registry entry
removeObjectFromScene_FreesEntry(id) ==
    /\ CASE SceneCall(id) = "missing" ->
              /\ last' = Returned("removeObjectFromScene", <<id>>, -1)
              /\ UNCHANGED <<scene, OBJECTS>>
         [] SceneCall(id) = "throw" ->
              /\ last' = Threw("removeObjectFromScene", <<id>>)
              /\ UNCHANGED <<scene, OBJECTS>>
         [] OTHER ->
              /\ scene' = scene \ {id}
              /\ OBJECTS' = [h \in DOMAIN OBJECTS \ {id} |-> OBJECTS[h]]
              /\ last' = Returned("removeObjectFromScene", <<id>>, 0)
    /\ UNCHANGED <<TEXTURES, LOADED_TEXTURES, nextObjId, initialized,
                   pending, issued, resolved>>
    /\ UNCHANGED <<input, bridge, stage, contexts>>

removeObjectFromScene(id) ==
    /\ CASE SceneCall(id) = "missing" ->
              /\ last' = Returned("removeObjectFromScene", <<id>>, -1)
              /\ UNCHANGED scene
         [] SceneCall(id) = "throw" ->
              /\ last' = Threw("removeObjectFromScene", <<id>>)
              /\ UNCHANGED scene
         [] OTHER ->
              /\ scene' = scene \ {id}
              /\ last' = Returned("removeObjectFromScene", <<id>>, 0)
    /\ UNCHANGED <<OBJECTS, TEXTURES, LOADED_TEXTURES, nextObjId, initialized,
                   pending, issued, resolved>>
    /\ UNCHANGED <<input, bridge, stage, contexts>>

----------------------------------------------------------------------------
(* setSpriteAnimationOffset *)

\* mutant: the offset in pixels of a texture 200 pixels wide and high
FrameOffset_Pixels(frameX, frameY, userData) ==
    <<Div(200 * frameX, userData.columns), Div(200 * frameY, userData.rows)>>

\* texture.offset.set(frameX / columns, frameY / rows)
FrameOffset(frameX, frameY, userData) ==
    <<Div(frameX, userData.columns), Div(frameY, userData.rows)>>

\* mutants: the grid check is left out; a node without a texture passes
Animated_NoGridCheck(id) ==
    /\ Has(OBJECTS, id)
    /\ OBJECTS[id].kind = "Sprite"
    /\ OBJECTS[id].map # None
Animated_TextureOptional(id) ==
    /\ Has(OBJECTS, id)
    /\ OBJECTS[id].map # None
         => /\ Truthy(OBJECTS[id].map[1].userData.rows)
            /\ Truthy(OBJECTS[id].map[1].userData.columns)

\* the sprite's texture the call may write, if the checks pass
Animated(id) ==
    /\ Found(id)
    /\ OBJECTS[id].kind = "Sprite"
    /\ OBJECTS[id].map # None
    /\ Truthy(OBJECTS[id].map[1].userData.rows)
    /\ Truthy(OBJECTS[id].map[1].userData.columns)

\* a texture record after a write of offset to the texture object ref
OffsetWritten(texture, ref, offset) ==
    IF texture.ref = ref THEN [texture EXCEPT !.offset = offset] ELSE texture

\* texture.offset.set(...) on the object that is the map of node id
WriteOffset(id, frameX, frameY) ==
    IF OBJECTS[id].map = None
    THEN [objects |-> OBJECTS, textures |-> TEXTURES]
    ELSE LET texture == OBJECTS[id].map[1]
             offset == FrameOffset(frameX, frameY, texture.userData)
         IN  [objects |->
                [h \in DOMAIN OBJECTS |->
                   IF OBJECTS[h].map = None THEN OBJECTS[h]
                   ELSE [OBJECTS[h] EXCEPT
                           !.map = Some(OffsetWritten(OBJECTS[h].map[1],
                                                      texture.ref, offset))]],
              textures |->
                [t \in DOMAIN TEXTURES |->
                   OffsetWritten(TEXTURES[t], texture.ref, offset)]]

setSpriteAnimationOffset(id, frameX, frameY) ==
    /\ IF Animated(id)
       THEN /\ LET w == WriteOffset(id, frameX, frameY) IN
                 /\ OBJECTS' = w.objects
                 /\ TEXTURES' = w.textures
            /\ last' = Returned("setSpriteAnimationOffset",
                                <<id, frameX, frameY>>, 0)
       ELSE /\ last' = Returned("setSpriteAnimationOffset",
                                <<id, frameX, frameY>>, -1)
            /\ UNCHANGED <<OBJECTS, TEXTURES>>
    /\ UNCHANGED <<LOADED_TEXTURES, nextObjId, initialized, scene,
                   pending, issued, resolved>>
    /\ UNCHANGED <<input, bridge, stage, contexts>>

----------------------------------------------------------------------------
(* init *)

\* __camera, __scene, __renderer are assigned; the new Scene has no children
init ==
    /\ initialized' = TRUE
    /\ scene' = {}
    /\ camera' = NewCamera
    /\ background' = None
    /\ canvas' = None
    /\ last' = Suspended("init", <<>>)
    /\ UNCHANGED <<OBJECTS, TEXTURES, LOADED_TEXTURES, nextObjId, pending, issued, resolved>>
    /\ UNCHANGED <<input, bridge, contexts>>

-----------------------------------------------------------------------------
(* setCameraPosition, cameraLookAt, setBg, render *)

setCameraPosition(v) ==
    /\ IF ~initialized
       THEN /\ last' = Returned("setCameraPosition", v, -1)
            /\ UNCHANGED camera
       ELSE /\ camera' = [camera EXCEPT !.position = v]
            /\ last' = Returned("setCameraPosition", v, 0)
    /\ UNCHANGED <<OBJECTS, TEXTURES, LOADED_TEXTURES, nextObjId, initialized,
                   scene, pending, issued, resolved, background, canvas>>
    /\ UNCHANGED <<input, bridge, contexts>>

cameraLookAt(v) ==
    /\ IF ~initialized
       THEN /\ last' = Returned("cameraLookAt", v, -1)
            /\ UNCHANGED camera
       ELSE /\ camera' = [camera EXCEPT !.target = Some(v)]
            /\ last' = Returned("cameraLookAt", v, 0)
    /\ UNCHANGED <<OBJECTS, TEXTURES, LOADED_TEXTURES, nextObjId, initialized,
                   scene, pending, issued, resolved, background, canvas>>
    /\ UNCHANGED <<input, bridge, contexts>>

setBg(color) ==
    /\ IF ~initialized
       THEN /\ last' = Returned("setBg", <<color>>, -1)
            /\ UNCHANGED background
       ELSE /\ background' = Some(color)
            /\ last' = Returned("setBg", <<color>>, 0)
    /\ UNCHANGED <<OBJECTS, TEXTURES, LOADED_TEXTURES, nextObjId, initialized,
                   scene, pending, issued, resolved, camera, canvas>>
    /\ UNCHANGED <<input, bridge, contexts>>

\* mutant: render draws without testing the renderer, scene and camera
render_Unguarded ==
    /\ canvas' = Some([children |-> scene, background |-> background,
                       camera |-> camera])
    /\ last' = Returned("render", <<>>, 0)
    /\ UNCHANGED <<OBJECTS, TEXTURES, LOADED_TEXTURES, nextObjId, initialized,
                   scene, pending, issued, resolved, camera, background>>
    /\ UNCHANGED <<input, bridge, contexts>>

render ==
    /\ IF ~initialized
       THEN /\ last' = Returned("render", <<>>, -1)
            /\ UNCHANGED canvas
       ELSE /\ canvas' = Some([children |-> scene, background |-> background,
                               camera |-> camera])
            /\ last' = Returned("render", <<>>, 0)
    /\ UNCHANGED <<OBJECTS, TEXTURES, LOADED_TEXTURES, nextObjId, initialized,
                   scene, pending, issued, resolved, camera, background>>
    /\ UNCHANGED <<input, bridge, contexts>>

----------------------------------------------------------------------------
(* Input encoder: onKeyDown, onKeyUp, onMouseMove, getKeysPressed,         *)
(* getMouseMovement                                                        *)

\* a | b and a & ~b on non-negative integers
RECURSIVE BitOr(_, _)
BitOr(a, b) ==
    IF a = 0 THEN b
    ELSE IF b = 0 THEN a
    ELSE (IF a % 2 = 1 \/ b % 2 = 1 THEN 1 ELSE 0)
         + 2 * BitOr(a \div 2, b \div 2)

RECURSIVE BitAndNot(_, _)
BitAndNot(a, b) ==
    IF a = 0 THEN 0
    ELSE (IF a % 2 = 1 /\ b % 2 = 0 THEN 1 ELSE 0)
         + 2 * BitAndNot(a \div 2, b \div 2)

\* keys[ev.key]: undefined (falsy, 0 here) for a key that is not in keys
KeyBit(key) == IF key \in DOMAIN keys THEN keys[key] ELSE 0

\* window.addEventListener(...) for the three handlers
initInputListeners ==
    /\ listening' = TRUE
    /\ last' = Suspended("initInputListeners", <<>>)
    /\ UNCHANGED <<keysPressed, mouseMovementX, mouseMovementY, recent,
                   moves, reads>>
    /\ UNCHANGED <<context, bridge, contexts>>

\* if (pressed) keysPressed |= pressed
onKeyDown(key) ==
    /\ listening
    /\ keysPressed' = IF KeyBit(key) # 0
                      THEN BitOr(keysPressed, KeyBit(key)) ELSE keysPressed
    /\ recent' = IF key \in DOMAIN recent
                 THEN [recent EXCEPT ![key] = "down"] ELSE recent
    /\ last' = Suspended("onKeyDown", <<key>>)
    /\ UNCHANGED <<mouseMovementX, mouseMovementY, listening, moves, reads>>
    /\ UNCHANGED <<context, bridge, contexts>>

\* if (pressed) keysPressed &= ~pressed
onKeyUp(key) ==
    /\ listening
    /\ keysPressed' = IF KeyBit(key) # 0
                      THEN BitAndNot(keysPressed, KeyBit(key)) ELSE keysPressed
    /\ recent' = IF key \in DOMAIN recent
                 THEN [recent EXCEPT ![key] = "up"] ELSE recent
    /\ last' = Suspended("onKeyUp", <<key>>)
    /\ UNCHANGED <<mouseMovementX, mouseMovementY, listening, moves, reads>>
    /\ UNCHANGED <<context, bridge, contexts>>

getKeysPressed ==
    /\ last' = Returned("getKeysPressed", <<>>, keysPressed)
    /\ UNCHANGED <<input, context, bridge, contexts>>

\* a 16-bit pattern read as a signed integer
Signed16(n) == IF n >= 32768 THEN n - 65536 ELSE n

\* low & 0xFFFF
Low16(low) == low % 65536

\* high << 16 as a 32-bit signed integer: the low 16 bits of high move up
ShiftLeft16(high) == Signed16(high % 65536) * 65536

\* the high and the low 16 bits of a 32-bit signed integer, as 0..65535
High16(n) == ((n - (n % 65536)) \div 65536) % 65536

\* a | b on 32-bit signed integers
Or32(a, b) ==
    Signed16(BitOr(High16(a), High16(b))) * 65536
    + BitOr((a % 65536), (b % 65536))

\* mutant: low is not masked, so the sign bits of a negative low reach the
\* high half
packU16sToU32_NoMask(low, high) == Or32(ShiftLeft16(high), low)

\* (high << 16) | (low & 0xFFFF)
packU16sToU32(low, high) == Or32(ShiftLeft16(high), Low16(low))

\* mutant: the movement replaces the accumulated one
onMouseMove_Overwrite(movementX, movementY) ==
    /\ listening
    /\ Len(moves) < MaxMoves
    /\ mouseMovementX' = movementX
    /\ mouseMovementY' = movementY
    /\ moves' = Append(moves, <<movementX, movementY>>)
    /\ reads' = <<>>
    /\ last' = Suspended("onMouseMove", <<movementX, movementY>>)
    /\ UNCHANGED <<keysPressed, listening, recent>>
    /\ UNCHANGED <<context, bridge, contexts>>

onMouseMove(movementX, movementY) ==
    /\ listening
    /\ Len(moves) < MaxMoves
    /\ mouseMovementX' = mouseMovementX + movementX
    /\ mouseMovementY' = mouseMovementY + movementY
    /\ moves' = Append(moves, <<movementX, movementY>>)
    /\ reads' = <<>>
    /\ last' = Suspended("onMouseMove", <<movementX, movementY>>)
    /\ UNCHANGED <<keysPressed, listening, recent>>
    /\ UNCHANGED <<context, bridge, contexts>>

\* mutant: the accumulators are read but not reset
getMouseMovement_Snapshot ==
    /\ LET ret == packU16sToU32(mouseMovementX, mouseMovementY) IN
         /\ last' = Returned("getMouseMovement", <<>>, ret)
         /\ reads' = IF reads = <<>> THEN <<ret>>
                     ELSE <<reads[Len(reads)], ret>>
    /\ moves' = <<>>
    /\ UNCHANGED <<mouseMovementX, mouseMovementY>>
    /\ UNCHANGED <<keysPressed, listening, recent>>
    /\ UNCHANGED <<context, bridge, contexts>>

getMouseMovement ==
    /\ LET ret == packU16sToU32(mouseMovementX, mouseMovementY) IN
         /\ last' = Returned("getMouseMovement", <<>>, ret)
         /\ reads' = IF reads = <<>> THEN <<ret>>
                     ELSE <<reads[Len(reads)], ret>>
    /\ mouseMovementX' = 0
    /\ mouseMovementY' = 0
    /\ moves' = <<>>
    /\ UNCHANGED <<keysPressed, listening, recent>>
    /\ UNCHANGED <<context, bridge, contexts>>

----------------------------------------------------------------------------
(* Guest bridge of the module-level build (src/vite.config.ts): init and   *)
(* runWasmModule                                                           *)

\* the functions runWasmModule binds into the import table
HostImports == {"addObjectToScene", "removeObjectFromScene", "setPosition",
                "setRotation", "setScale", "setSpriteAnimationOffset",
                "createObject", "createSprite", "loadTexture"}

\* function init(camera, scene, renderer) { camera = camera; ... }: each
\* parameter shadows the module's variable of its name and is assigned to
\* itself, so the module's camera, scene and renderer stay as they were
InitStore(h, aCamera, aScene, aRenderer) == h

moduleInit(aCamera, aScene, aRenderer) ==
    /\ host' = InitStore(host, aCamera, aScene, aRenderer)
    /\ initCalled' = (initCalled \/ (aCamera /\ aScene /\ aRenderer))
    /\ last' = Suspended("init", <<aCamera, aScene, aRenderer>>)
    /\ UNCHANGED <<imports, run, frames>>
    /\ UNCHANGED <<context, input, library, contexts>>

\* mutant: a name the caller supplied is not overwritten
BindHost_CallerWins(given) ==
    [n \in DOMAIN given \cup HostImports |->
       IF n \in DOMAIN given THEN given[n] ELSE "host"]

\* imports.addObjectToScene = addObjectToScene; ... on the caller's table
BindHost(given) ==
    [n \in DOMAIN given \cup HostImports |->
       IF n \in HostImports THEN "host" ELSE given[n]]

\* runWasmModule up to the yield at WebAssembly.instantiate
runWasmModule(wasmModule, given) ==
    /\ run = None
    /\ imports' = Some(BindHost(given))
    /\ run' = Some([module |-> wasmModule, ready |-> initCalled])
    /\ last' = Suspended("runWasmModule", <<wasmModule, given>>)
    /\ UNCHANGED <<host, initCalled, frames>>
    /\ UNCHANGED <<context, input, library, contexts>>

\* mutant: the loop is started as soon as there is an instance
SetupOutcome_LoopFirst(module) ==
    IF module.result = "rejects" THEN "instantiate"
    ELSE IF module.result = "noExports" THEN "noInstance"
    ELSE "running"

\* the checks after the yield, in the order of the code
SetupOutcome(module) ==
    IF module.result = "rejects" THEN "instantiate"
    ELSE IF module.result = "noExports" THEN "noInstance"
    ELSE IF module.step # "function" THEN "noStep"
    ELSE IF ~host.scene \/ ~host.camera \/ ~host.renderer
         THEN "notInitialized"
    ELSE "running"

\* renderLoop: step(); renderer.render(scene, camera);
\* requestAnimationFrame(renderLoop); nothing catches what step throws
renderLoop(events, stepThrows) ==
    IF stepThrows THEN events \o <<"step">>
    ELSE events \o <<"step", "render", "frame">>

\* instantiate has settled: the rest of runWasmModule, which either throws
\* or calls renderLoop() and returns the instance
runWasmModuleInstantiated(stepThrows) ==
    /\ run # None
    /\ LET module == run[1].module
           outcome == SetupOutcome(module)
           args == <<module, outcome, run[1].ready, stepThrows>>
       IN  IF outcome = "running"
           THEN /\ frames' = renderLoop(frames, stepThrows)
                /\ last' = IF stepThrows
                           THEN Threw("runWasmModule.then", args)
                           ELSE Returned("runWasmModule.then", args,
                                         "instance")
           ELSE /\ last' = Threw("runWasmModule.then", args)
                /\ UNCHANGED frames
    /\ run' = None
    /\ UNCHANGED <<host, initCalled, imports>>
    /\ UNCHANGED <<context, input, library, contexts>>

----------------------------------------------------------------------------
(* Object operations of the module-level build (src/vite.config.ts)        *)

\* THREE[name] is a subclass of BufferGeometry, of Material
IsGeometryClass(name) == name = "BoxGeometry"
IsMaterialClass(name) == name = "MeshBasicMaterial"

\* JSON.parse(text) returns an array
Parses(text) == text = "[]"

\* const id = nextObjId++; OBJECTS.set(nextObjId, node): the key is the
\* counter after the increment
moduleStore(objects, n, node) == Put(objects, n + 1, node)

moduleCreateObject(geometryClass, geometryParams, materialClass, materialParams) ==
    /\ moduleNextObjId < MaxModuleIds
    /\ IF /\ IsGeometryClass(geometryClass)
          /\ IsMaterialClass(materialClass)
          /\ Parses(geometryParams)
          /\ Parses(materialParams)
       THEN /\ moduleOBJECTS' =
                 moduleStore(moduleOBJECTS, moduleNextObjId,
                             [kind |-> "mesh", position |-> <<0, 0, 0>>,
                              serial |-> moduleNextObjId])
            /\ moduleNextObjId' = moduleNextObjId + 2
            /\ moduleIssued' = moduleIssued \cup {moduleNextObjId}
            /\ last' = Returned("module.createObject",
                                <<geometryClass, geometryParams,
                                  materialClass, materialParams>>,
                                moduleNextObjId)
       ELSE /\ last' = Returned("module.createObject",
                                <<geometryClass, geometryParams,
                                  materialClass, materialParams>>, -1)
            /\ UNCHANGED <<moduleOBJECTS, moduleNextObjId, moduleIssued>>
    /\ UNCHANGED <<moduleTEXTURES, moduleLoading>>
    /\ UNCHANGED <<host, initCalled, imports, run, frames>>
    /\ UNCHANGED <<context, input, contexts>>

loadTexture(path) ==
    /\ IF Has(moduleTEXTURES, path)
       THEN /\ last' = Returned("module.loadTexture", <<path>>, -1)
            /\ UNCHANGED moduleLoading
       ELSE /\ BagCardinality(moduleLoading) < MaxPending
            /\ moduleLoading' = moduleLoading (+) SetToBag({path})
            /\ last' = Returned("module.loadTexture", <<path>>, 0)
    /\ UNCHANGED <<moduleOBJECTS, moduleNextObjId, moduleTEXTURES, moduleIssued>>
    /\ UNCHANGED <<host, initCalled, imports, run, frames>>
    /\ UNCHANGED <<context, input, contexts>>

\* .then((texture) => TEXTURES.set(path, texture))
loadTextureLoaded(path) ==
    /\ BagIn(path, moduleLoading)
    /\ moduleLoading' = moduleLoading (-) SetToBag({path})
    /\ moduleTEXTURES' =
         Put(moduleTEXTURES, path,
             [repeat |-> <<Frac(1, 1), Frac(1, 1)>>, userData |-> None])
    /\ last' = Suspended("module.loadTexture.then", <<path>>)
    /\ UNCHANGED <<moduleOBJECTS, moduleNextObjId, moduleIssued>>
    /\ UNCHANGED <<host, initCalled, imports, run, frames>>
    /\ UNCHANGED <<context, input, contexts>>

\* .catch((error) => console.error(...))
loadTextureFailed(path) ==
    /\ BagIn(path, moduleLoading)
    /\ moduleLoading' = moduleLoading (-) SetToBag({path})
    /\ last' = Suspended("module.loadTexture.catch", <<path>>)
    /\ UNCHANGED <<moduleOBJECTS, moduleNextObjId, moduleTEXTURES, moduleIssued>>
    /\ UNCHANGED <<host, initCalled, imports, run, frames>>
    /\ UNCHANGED <<context, input, contexts>>

\* a parameter with the default value 4
OrFour(given) == IF given = None THEN 4 ELSE given[1]

moduleCreateSprite(texturePath, columns, rows) ==
    /\ moduleNextObjId < MaxModuleIds
    /\ IF ~Has(moduleTEXTURES, texturePath)
       THEN /\ last' = Returned("module.createSprite",
                                <<texturePath, columns, rows>>, -1)
            /\ UNCHANGED <<moduleOBJECTS, moduleNextObjId, moduleTEXTURES,
                           moduleIssued>>
       ELSE /\ moduleTEXTURES' =
                 [moduleTEXTURES EXCEPT ![texturePath] =
                    [repeat |-> <<Frac(1, OrFour(columns)),
                                  Frac(1, OrFour(rows))>>,
                     userData |-> Some([columns |-> OrFour(columns),
                                        rows |-> OrFour(rows)])]]
            /\ moduleOBJECTS' =
                 moduleStore(moduleOBJECTS, moduleNextObjId,
                             [kind |-> "sprite", position |-> <<0, 0, 0>>,
                              serial |-> moduleNextObjId])
            /\ moduleNextObjId' = moduleNextObjId + 1
            /\ moduleIssued' = moduleIssued \cup {moduleNextObjId}
            /\ last' = Returned("module.createSprite",
                                <<texturePath, columns, rows>>,
                                moduleNextObjId)
    /\ UNCHANGED moduleLoading
    /\ UNCHANGED <<host, initCalled, imports, run, frames>>
    /\ UNCHANGED <<context, input, contexts>>

moduleSetPosition(id, v) ==
    /\ IF ~Has(moduleOBJECTS, id)
       THEN /\ last' = Returned("module.setPosition", <<id, v>>, -1)
            /\ UNCHANGED moduleOBJECTS
       ELSE /\ moduleOBJECTS' =
                 [moduleOBJECTS EXCEPT ![id].position = v]
            /\ last' = Returned("module.setPosition", <<id, v>>, 0)
    /\ UNCHANGED <<moduleNextObjId, moduleTEXTURES, moduleLoading, moduleIssued>>
    /\ UNCHANGED <<host, initCalled, imports, run, frames>>
    /\ UNCHANGED <<context, input, contexts>>

----------------------------------------------------------------------------
(* Two contexts of separate createContext calls                            *)

\* the state of the context the variables belong to
ContextState ==
    [OBJECTS |-> OBJECTS, TEXTURES |-> TEXTURES,
     LOADED_TEXTURES |-> LOADED_TEXTURES, nextObjId |-> nextObjId,
     initialized |-> initialized, scene |-> scene, pending |-> pending,
     issued |-> issued, resolved |-> resolved, camera |-> camera,
     background |-> background, canvas |-> canvas,
     keysPressed |-> keysPressed, mouseMovementX |-> mouseMovementX,
     mouseMovementY |-> mouseMovementY, listening |-> listening,
     recent |-> recent, moves |-> moves, reads |-> reads]

\* mutant: the counter is a variable of the module, one for all contexts
CounterOf_Module(own, other) == other

\* let __nextObjId = 0 is inside createContext: the counter a context uses
\* is its own, whatever the counter of the other context is
CounterOf(own, other) == own

\* createContext is called a second time: a context with state of its own
createContext ==
    /\ parked = None
    /\ parked' = Some(NewContext)
    /\ last' = Suspended("createContext", <<>>)
    /\ UNCHANGED <<context, input, bridge, active>>

\* the caller turns to the context of the other createContext call
otherContext ==
    /\ parked # None
    /\ active' = 3 - active
    /\ parked' = Some(ContextState)
    /\ OBJECTS' = parked[1].OBJECTS
    /\ TEXTURES' = parked[1].TEXTURES
    /\ LOADED_TEXTURES' = parked[1].LOADED_TEXTURES
    /\ nextObjId' = CounterOf(parked[1].nextObjId, nextObjId)
    /\ initialized' = parked[1].initialized
    /\ scene' = parked[1].scene
    /\ pending' = parked[1].pending
    /\ issued' = parked[1].issued
    /\ resolved' = parked[1].resolved
    /\ camera' = parked[1].camera
    /\ background' = parked[1].background
    /\ canvas' = parked[1].canvas
    /\ keysPressed' = parked[1].keysPressed
    /\ mouseMovementX' = parked[1].mouseMovementX
    /\ mouseMovementY' = parked[1].mouseMovementY
    /\ listening' = parked[1].listening
    /\ recent' = parked[1].recent
    /\ moves' = parked[1].moves
    /\ reads' = parked[1].reads
    /\ UNCHANGED <<last, bridge>>

\* onMouseMove of a context, if the context has registered it
MouseMoved(c, movementX, movementY) ==
    IF c.listening
    THEN [c EXCEPT !.mouseMovementX = @ + movementX,
                   !.mouseMovementY = @ + movementY,
                   !.moves = Append(@, <<movementX, movementY>>),
                   !.reads = <<>>]
    ELSE c

\* onKeyDown, onKeyUp of a context, if the context has registered them
KeyChanged(c, type, key) ==
    IF c.listening
    THEN [c EXCEPT !.keysPressed =
                      IF KeyBit(key) = 0 THEN @
                      ELSE IF type = "keydown" THEN BitOr(@, KeyBit(key))
                      ELSE BitAndNot(@, KeyBit(key)),
                   !.recent =
                      IF key \in DOMAIN @
                      THEN [@ EXCEPT ![key] =
                              IF type = "keydown" THEN "down" ELSE "up"]
                      ELSE @]
    ELSE c

\* the window dispatches a mousemove event: every registered onMouseMove runs
windowMouseMove(movementX, movementY) ==
    /\ listening \/ (parked # None /\ parked[1].listening)
    /\ Len(moves) < MaxMoves
    /\ parked # None => Len(parked[1].moves) < MaxMoves
    /\ LET mine == MouseMoved(ContextState, movementX, movementY) IN
         /\ mouseMovementX' = mine.mouseMovementX
         /\ mouseMovementY' = mine.mouseMovementY
         /\ moves' = mine.moves
         /\ reads' = mine.reads
    /\ parked' = IF parked = None THEN None
               ELSE Some(MouseMoved(parked[1], movementX, movementY))
    /\ last' = Suspended("mousemove", <<movementX, movementY>>)
    /\ UNCHANGED <<keysPressed, listening, recent, active>>
    /\ UNCHANGED <<OBJECTS, TEXTURES, LOADED_TEXTURES, nextObjId, initialized,
                   scene, pending, issued, resolved, stage, bridge>>

\* the window dispatches a keydown or keyup event
windowKey(type, key) ==
    /\ listening \/ (parked # None /\ parked[1].listening)
    /\ LET mine == KeyChanged(ContextState, type, key) IN
         /\ keysPressed' = mine.keysPressed
         /\ recent' = mine.recent
    /\ parked' = IF parked = None THEN None
               ELSE Some(KeyChanged(parked[1], type, key))
    /\ last' = Suspended(type, <<key>>)
    /\ UNCHANGED <<mouseMovementX, mouseMovementY, listening, moves, reads,
                   active>>
    /\ UNCHANGED <<OBJECTS, TEXTURES, LOADED_TEXTURES, nextObjId, initialized,
                   scene, pending, issued, resolved, stage, bridge>>

----------------------------------------------------------------------------
Next ==
    \/ \E g \in GeometryInputs, m \in MaterialInputs : createObject(g, m)
    \/ \E id \in TexIds, p \in Paths, r \in RowInputs, c \in ColumnInputs :
         addTexture(id, p, r, c)
    \/ \E c \in BagToSet(pending) : addTextureLoaded(c)
    \/ \E c \in BagToSet(pending) : addTextureFailed(c)
    \/ \E t \in TexIds : createSprite(t)
    \/ \E id \in Handles, v \in Vectors : setPosition(id, v)
    \/ \E id \in Handles, v \in Rotations : setRotation(id, v)
    \/ \E id \in Handles, v \in Scales : setScale(id, v)
    \/ \E id \in Handles : addObjectToScene(id)
    \/ \E id \in Handles : removeObjectFromScene(id)
    \/ \E id \in Handles, x \in Frames, y \in Frames :
         setSpriteAnimationOffset(id, x, y)
    \/ init

Spec == Init /\ [][Next]_vars

\* the camera, the background and the renderer
NextCamera ==
    \/ init
    \/ \E v \in CameraVectors : setCameraPosition(v)
    \/ \E v \in CameraVectors : cameraLookAt(v)
    \/ \E color \in Colors : setBg(color)
    \/ render
    \/ createObject(2001, 1001)
    \/ \E id \in Handles : addObjectToScene(id)

SpecCamera == Init /\ [][NextCamera]_vars

\* the object operations of the module-level build
NextModule ==
    \/ \E g \in ClassNames, gp \in ParamTexts, m \in ClassNames,
          mp \in ParamTexts : moduleCreateObject(g, gp, m, mp)
    \/ \E p \in ModulePaths : loadTexture(p)
    \/ \E p \in ModulePaths : loadTextureLoaded(p)
    \/ \E p \in ModulePaths : loadTextureFailed(p)
    \/ \E p \in ModulePaths, c \in ModuleGridInputs, r \in ModuleGridInputs :
         moduleCreateSprite(p, c, r)
    \/ \E id \in ModuleHandles, v \in Vectors : moduleSetPosition(id, v)

SpecModule == Init /\ [][NextModule]_vars

\* two contexts side by side; in each context a texture is requested when no
\* load is outstanding and the mouse is read after it has moved
NextContexts ==
    \/ createContext
    \/ otherContext
    \/ createObject(2001, 1001)
    \/ pending = EmptyBag /\ addTexture(1, "a.png", None, None)
    \/ \E c \in BagToSet(pending) : addTextureLoaded(c)
    \/ initInputListeners
    \/ windowMouseMove(3, 4)
    \/ windowKey("keydown", "w")
    \/ moves # <<>> /\ getMouseMovement

SpecContexts == Init /\ [][NextContexts]_vars

\* the texture registry alone, with every argument of addTexture varied
NextTextures ==
    \/ \E id \in AllTexIds, p \in AllPaths, r \in AllRowInputs,
          c \in AllColumnInputs : addTexture(id, p, r, c)
    \/ \E c \in BagToSet(pending) : addTextureLoaded(c)
    \/ \E c \in BagToSet(pending) : addTextureFailed(c)

SpecTextures == Init /\ [][NextTextures]_vars

\* sprites of one texture and their frames, next to a generic object
NextAtlas ==
    \/ \E id \in TexIds, p \in Paths, r \in AtlasRowInputs,
          c \in AtlasColumnInputs : addTexture(id, p, r, c)
    \/ \E c \in BagToSet(pending) : addTextureLoaded(c)
    \/ \E c \in BagToSet(pending) : addTextureFailed(c)
    \/ createObject(2001, 1001)
    \/ \E t \in TexIds : createSprite(t)
    \/ \E id \in Handles, x \in AtlasFramesX, y \in AtlasFramesY :
         setSpriteAnimationOffset(id, x, y)

SpecAtlas == Init /\ [][NextAtlas]_vars

\* createObject alone, with kind codes inside and outside the enums
NextKinds ==
    \E g \in KindInputs, m \in KindInputs : createObject(g, m)

SpecKinds == Init /\ [][NextKinds]_vars

\* the keyboard half of the input encoder
NextKeys ==
    \/ initInputListeners
    \/ \E k \in KeyInputs : onKeyDown(k)
    \/ \E k \in KeyInputs : onKeyUp(k)
    \/ getKeysPressed

SpecKeys == Init /\ [][NextKeys]_vars

\* the mouse half of the input encoder
NextMouse ==
    \/ initInputListeners
    \/ \E x \in DeltaInputs, y \in DeltaInputs : onMouseMove(x, y)
    \/ getMouseMovement

SpecMouse == Init /\ [][NextMouse]_vars

\* the module-level build's bridge
NextBridge ==
    \/ \E c \in BOOLEAN, s \in BOOLEAN, r \in BOOLEAN : moduleInit(c, s, r)
    \/ \E m \in Modules, g \in CallerImports : runWasmModule(m, g)
    \/ \E stepThrows \in BOOLEAN : runWasmModuleInstantiated(stepThrows)

SpecBridge == Init /\ [][NextBridge]_vars

\* one texture, with every combination of the grid arguments
NextGrid ==
    \/ \E id \in TexIds, p \in Paths, r \in GridRowInputs,
          c \in GridColumnInputs : addTexture(id, p, r, c)
    \/ \E c \in BagToSet(pending) : addTextureLoaded(c)
    \/ \E c \in BagToSet(pending) : addTextureFailed(c)

SpecGrid == Init /\ [][NextGrid]_vars


----------------------------------------------------------------------------
(* Properties *)

Fail == Some(-1)
Ok == Some(0)
Issued == Range(issued)
Creations == {"createObject", "createSprite"}
HandleOps == {"setPosition", "setRotation", "setScale", "addObjectToScene",
              "removeObjectFromScene", "setSpriteAnimationOffset"}

\* C1: the handles returned by the successful createObject and createSprite
\* calls of one context, in call order, are strictly increasing (and so
\* pairwise distinct), whatever failed calls lie between them.
C1_HandlesStrictlyIncrease ==
    \A i, j \in DOMAIN issued : i < j => issued[i] < issued[j]

\* two successful creations, an object then a sprite, the second one just made
C1_Witness ==
    /\ Len(issued) = 2
    /\ last.op = "createSprite"
    /\ last.ret = Some(issued[2])
    /\ OBJECTS[issued[1]].kind = "Mesh"

\* C2: a createObject or createSprite call that returns -1 leaves the object
\* counter as it was, and a successful one returns the counter's value: the
\* next successful creation returns what it would have returned without the
\* failed call.
C2_FailedCreationKeepsCounter ==
    [][/\ (last'.op \in Creations /\ last'.ret = Fail)
            => nextObjId' = nextObjId
       /\ (last'.op \in Creations /\ last'.ret # Fail)
            => last'.ret = Some(nextObjId)]_vars

\* a creation has just failed in a context that has issued a handle
C2_Witness ==
    /\ last.op \in Creations
    /\ last.ret = Fail
    /\ nextObjId = 1

\* C3: the first successful creation returns 0 and each later one returns
\* the previous returned handle plus 1, objects and sprites sharing the
\* counter.
C3_HandlesDense == \A i \in DOMAIN issued : issued[i] = i - 1

\* a sprite got handle 0 and an object handle 1
C3_Witness ==
    /\ Len(issued) = 2
    /\ OBJECTS[issued[1]].kind = "Sprite"
    /\ OBJECTS[issued[2]].kind = "Mesh"

\* C4: every handle returned by a successful creation resolves to the node
\* that creation made, and setPosition(h, v) on such a handle returns 0 and
\* leaves the node stored under h with position v.
C4_HandleResolves ==
    /\ \A i \in DOMAIN issued :
         Has(OBJECTS, issued[i]) /\ OBJECTS[issued[i]].serial = i
    /\ (last.op = "setPosition" /\ last.args[1] \in Issued)
         => /\ last.ret = Ok
            /\ OBJECTS[last.args[1]].position = last.args[2]

\* setPosition has just returned for the handle of a sprite created second
C4_Witness ==
    /\ last.op = "setPosition"
    /\ last.args[1] \in Issued
    /\ last.args[1] = 1
    /\ OBJECTS[1].kind = "Sprite"
    /\ OBJECTS[1].position = <<1, 2, 3>>

\* C5: a call of setPosition, setRotation, setScale, addObjectToScene,
\* removeObjectFromScene or setSpriteAnimationOffset with a handle that no
\* successful creation returned returns -1 and does not throw, before init
\* and after it.
C5_UnknownHandleFails ==
    (last.op \in HandleOps /\ last.args[1] \notin Issued)
        => (last.ret = Fail /\ ~last.threw)

\* addObjectToScene on an unknown handle before init, other handles existing
C5_Witness ==
    /\ last.op = "addObjectToScene"
    /\ last.args[1] \notin Issued
    /\ ~initialized
    /\ nextObjId > 0

\* C6: a call that returns -1 leaves the object registry (every node's
\* attributes and texture offset), the texture registry, the loaded-path
\* set, the object counter and the scene membership unchanged.
C6_FailureChangesNothing ==
    [][last'.ret = Fail => UNCHANGED registry]_vars

\* setSpriteAnimationOffset has just failed on a sprite that is in the scene
C6_Witness ==
    /\ last.op = "setSpriteAnimationOffset"
    /\ last.ret = Fail
    /\ last.args[1] \in scene
    /\ TEXTURES # <<>>

\* C7: once addTexture has completed with success for a path, an addTexture
\* call with that path, under any handle, returns -1, starts no fetch and
\* leaves the texture registry and the loaded-path set unchanged.
C7_DuplicatePathRejected ==
    [][(last'.op = "addTexture" /\ last'.args[2] \in resolved)
         => /\ last'.ret = Fail
            /\ UNCHANGED <<TEXTURES, LOADED_TEXTURES, pending>>]_vars

\* a loaded path has just been offered again under a free handle
C7_Witness ==
    /\ last.op = "addTexture"
    /\ last.args[2] \in resolved
    /\ ~Has(TEXTURES, last.args[1])
    /\ last.ret = Fail

\* C8: an addTexture call with a handle that is in the texture registry
\* returns -1, whatever the path, starts no fetch and leaves the texture
\* under that handle as it was.
C8_OccupiedHandleRejected ==
    [][(last'.op = "addTexture" /\ Has(TEXTURES, last'.args[1]))
         => /\ last'.ret = Fail
            /\ TEXTURES' = TEXTURES
            /\ pending' = pending]_vars

\* an occupied handle has just been offered a path never loaded
C8_Witness ==
    /\ last.op = "addTexture"
    /\ Has(TEXTURES, last.args[1])
    /\ last.args[2] \notin LOADED_TEXTURES
    /\ last.args[2] \notin resolved
    /\ last.ret = Fail

ExactlyOneSupplied(rows, columns) == Supplied(rows) # Supplied(columns)

\* C9: an addTexture call with exactly one of rows and columns supplied
\* resolves to -1 (and so stores no texture and marks no path): it never
\* resolves to its handle.
C9_IncompleteGridRejected ==
    (/\ last.op \in {"addTexture", "addTexture.then"}
     /\ ExactlyOneSupplied(last.args[3], last.args[4])
     /\ last.ret # None)
        => last.ret = Fail

\* the checks of addTexture, on the arguments and the state at call time
PassesChecks(c) ==
    /\ c.path \notin LOADED_TEXTURES
    /\ c.id \notin DOMAIN TEXTURES
    /\ Truthy(c.rows) <=> Truthy(c.columns)

\* C10: a call of addTexture that returns -1 starts no fetch, and a fetch is
\* started only by an addTexture call whose arguments pass the three checks
\* in the state the call is made in.
C10_ValidationBeforeFetch ==
    [][/\ (last'.op = "addTexture" /\ last'.ret = Fail) => pending' = pending
       /\ \A c \in BagToSet(pending') :
            CopiesIn(c, pending') > CopiesIn(c, pending)
              => /\ PassesChecks(c)
                 /\ last' = Suspended("addTexture",
                                      <<c.id, c.path, c.rows, c.columns>>)]_vars

\* a fetch has just been started while another texture is in the registry
C10_Witness ==
    /\ last.op = "addTexture"
    /\ last.ret = None
    /\ BagCardinality(pending) = 1
    /\ TEXTURES # <<>>

\* the call whose fetch has just failed
FetchFailed == last.op = "addTexture.then" /\ last.threw

\* C11 as stated: once the fetch of addTexture(id, path, ...) has failed, id
\* is not in the texture registry and path is not in the loaded-path set.
C11_FreeAfterFailure ==
    FetchFailed => /\ last.args[1] \notin DOMAIN TEXTURES
                   /\ last.args[2] \notin LOADED_TEXTURES

\* C11: a failed fetch of addTexture(id, path, ...) leaves the texture
\* registry and the loaded-path set as they were just before the failure, and
\* when id is then free and path unmarked (no other call stored them while
\* this one was outstanding) the same call again passes validation.
C11_FailureLeavesRegistry ==
    [][FetchFailed' =>
         /\ UNCHANGED <<TEXTURES, LOADED_TEXTURES>>
         /\ (/\ last'.args[1] \notin DOMAIN TEXTURES
             /\ last'.args[2] \notin LOADED_TEXTURES)
              => ~Rejected(last'.args[1], last'.args[2], last'.args[3],
                           last'.args[4])]_vars

C11_Witness ==
    /\ FetchFailed
    /\ last.args[1] \notin DOMAIN TEXTURES
    /\ last.args[2] \notin LOADED_TEXTURES
    /\ TEXTURES # <<>>

\* the call whose fetch has just succeeded
FetchSucceeded == last.op = "addTexture.then" /\ ~last.threw

\* C12: when the fetch of addTexture(id, path, rows, columns) succeeds, the
\* call resolves to id, the registry maps id to the fetched texture, path is
\* marked loaded, and the stored texture carries (rows, columns) when both
\* were supplied and no grid when both were omitted.
C12_LoadedTextureStored ==
    FetchSucceeded =>
      LET id == last.args[1]
          path == last.args[2]
          rows == last.args[3]
          columns == last.args[4]
      IN  /\ last.ret = Some(id)
          /\ Has(TEXTURES, id)
          /\ TEXTURES[id].path = path
          /\ TEXTURES[id].ref = <<"texture", id>>
          /\ path \in LOADED_TEXTURES
          /\ (Supplied(rows) /\ Supplied(columns))
               => TEXTURES[id].userData = [rows |-> rows, columns |-> columns]
          /\ (~Supplied(rows) /\ ~Supplied(columns))
               => TEXTURES[id].userData = NoGrid

\* C13: the completion of addTexture is one step for every other operation:
\* in every state a stored texture's path is marked loaded, a path becomes
\* marked only in the step that stores the texture of the call that asked
\* for it, and that step stores the texture with the grid the call supplied.
C13_CompletionAtomic ==
    [][/\ \A id \in DOMAIN TEXTURES' :
             TEXTURES'[id].path \in LOADED_TEXTURES'
       /\ \A p \in LOADED_TEXTURES' \ LOADED_TEXTURES :
             /\ FetchSucceeded'
             /\ last'.args[2] = p
             /\ Has(TEXTURES', last'.args[1])
             /\ TEXTURES'[last'.args[1]].path = p
       /\ (FetchSucceeded' /\ Truthy(last'.args[3]) /\ Truthy(last'.args[4]))
            => /\ Has(TEXTURES', last'.args[1])
               /\ TEXTURES'[last'.args[1]].userData =
                    [rows |-> last'.args[3], columns |-> last'.args[4]]]_vars

C13_Witness ==
    /\ FetchSucceeded
    /\ TEXTURES[last.args[1]].userData = [rows |-> Some(2), columns |-> Some(2)]
    /\ last.args[2] \in LOADED_TEXTURES
    /\ BagCardinality(pending) > 0
    /\ OBJECTS # <<>>

\* C14: a call for a path that another outstanding call is fetching under a
\* different handle passes the duplicate-path check (the path is not marked
\* until a fetch resolves), and a fetch that succeeds after the path has been
\* marked by the other call still resolves to its handle and stores its
\* texture, so one path ends with two registry entries.
C14_SamePathRace ==
    [][/\ (/\ last'.op = "addTexture"
           /\ \E c \in BagToSet(pending) :
                 c.path = last'.args[2] /\ c.id # last'.args[1]
           /\ last'.args[2] \notin LOADED_TEXTURES
           /\ last'.args[1] \notin DOMAIN TEXTURES
           /\ Truthy(last'.args[3]) <=> Truthy(last'.args[4]))
            => /\ last'.ret = None
               /\ BagCardinality(pending') = BagCardinality(pending) + 1
       /\ (FetchSucceeded' /\ last'.args[2] \in LOADED_TEXTURES)
            => /\ last'.ret = Some(last'.args[1])
               /\ Has(TEXTURES', last'.args[1])
               /\ TEXTURES'[last'.args[1]].path = last'.args[2]]_vars

C14_Witness ==
    /\ FetchSucceeded
    /\ \E i, j \in DOMAIN TEXTURES :
          /\ i # j
          /\ TEXTURES[i].path = TEXTURES[j].path
          /\ last.args[1] = j
    /\ Cardinality(LOADED_TEXTURES) = 1

\* C15: createSprite(textureHandle) returns -1 and creates no object whenever
\* textureHandle is not in the texture registry at the call, also while an
\* addTexture for that handle is outstanding or after its fetch failed.
C15_SpriteNeedsTexture ==
    [][(last'.op = "createSprite" /\ ~Has(TEXTURES, last'.args[1]))
         => /\ last'.ret = Fail
            /\ ~last'.threw
            /\ UNCHANGED <<OBJECTS, nextObjId, issued>>]_vars

C15_Witness ==
    /\ last.op = "createSprite"
    /\ last.ret = Fail
    /\ \E c \in BagToSet(pending) : c.id = last.args[1]
    /\ ~Has(TEXTURES, last.args[1])
    /\ OBJECTS # <<>>

\* the call of setSpriteAnimationOffset that has just returned, and its node
Offset == last.op = "setSpriteAnimationOffset"
IsSprite(h) == Has(OBJECTS, h) /\ OBJECTS[h].kind = "Sprite"

\* C16: a successful setSpriteAnimationOffset on one sprite changes neither
\* another sprite (its texture offset included) nor the texture stored in
\* the texture registry, although the sprites come from one texture handle.
C16_SpritesIndependent ==
    [][(Offset' /\ last'.ret = Ok)
         => /\ TEXTURES' = TEXTURES
            /\ DOMAIN OBJECTS' = DOMAIN OBJECTS
            /\ \A h \in DOMAIN OBJECTS :
                  h # last'.args[1] => OBJECTS'[h] = OBJECTS[h]]_vars

C16_Witness ==
    /\ Offset /\ last.ret = Ok
    /\ IsSprite(0) /\ IsSprite(1)
    /\ OBJECTS[0].map[1].path = OBJECTS[1].map[1].path
    /\ OBJECTS[0].map[1].offset # OBJECTS[1].map[1].offset
    /\ \A t \in DOMAIN TEXTURES : TEXTURES[t].offset = <<Frac(0, 1), Frac(0, 1)>>
    /\ TEXTURES # <<>>

\* C17: the texture of a new sprite is the sprite's own texture object and
\* carries the grid of the registry's texture it was created from, which is
\* the (rows, columns) that texture was loaded with; the grid stays with the
\* sprite afterwards.
C17_SpriteCarriesGrid ==
    [][/\ (last'.op = "createSprite" /\ last'.ret # Fail)
            => LET h == last'.ret[1]
                   texture == TEXTURES[last'.args[1]]
               IN  /\ Has(OBJECTS', h) /\ ~Has(OBJECTS, h)
                   /\ OBJECTS'[h].map # None
                   /\ OBJECTS'[h].map[1].userData = texture.userData
                   /\ OBJECTS'[h].map[1].ref # texture.ref
       /\ FetchSucceeded' /\ Truthy(last'.args[3]) /\ Truthy(last'.args[4])
            => TEXTURES'[last'.args[1]].userData =
                 [rows |-> last'.args[3], columns |-> last'.args[4]]
       /\ \A h \in DOMAIN OBJECTS :
             IsSprite(h) => OBJECTS'[h].map[1].userData =
                              OBJECTS[h].map[1].userData]_vars

C17_Witness ==
    /\ last.op = "createSprite" /\ last.ret = Some(1)
    /\ OBJECTS[1].map[1].userData = [rows |-> Some(2), columns |-> Some(4)]
    /\ IsSprite(0)

\* value is the fraction n / d
IsFraction(value, n, d) == value[2] > 0 /\ value[1] * d = n * value[2]

C19_NoGridNoOffset ==
    [][(/\ Offset'
        /\ IsSprite(last'.args[1])
        /\ OBJECTS[last'.args[1]].map[1].userData = NoGrid)
         => /\ last'.ret = Fail
            /\ UNCHANGED registry]_vars

C19_Witness ==
    /\ Offset /\ last.ret = Fail
    /\ IsSprite(last.args[1])
    /\ OBJECTS[last.args[1]].map[1].userData = NoGrid
    /\ OBJECTS[last.args[1]].map[1].offset = <<Frac(0, 1), Frac(0, 1)>>

\* C20: setSpriteAnimationOffset returns -1 and changes nothing when the
\* handle resolves to a generic object made by createObject.
C20_MeshHasNoFrames ==
    [][(/\ Offset'
        /\ Has(OBJECTS, last'.args[1])
        /\ OBJECTS[last'.args[1]].kind = "Mesh")
         => /\ last'.ret = Fail
            /\ ~last'.threw
            /\ UNCHANGED registry]_vars

C20_Witness ==
    /\ Offset /\ last.ret = Fail
    /\ Has(OBJECTS, last.args[1])
    /\ OBJECTS[last.args[1]].kind = "Mesh"
    /\ \E h \in DOMAIN OBJECTS :
          IsSprite(h) /\ Truthy(OBJECTS[h].map[1].userData.rows)

Setters == {"setPosition", "setRotation", "setScale"}

\* C21: no operation removes an entry of the object registry, so every
\* handle returned by a successful creation stays in it and setPosition,
\* setRotation and setScale return 0 on it, also after
\* removeObjectFromScene on that handle.
C21_HandlesStayResolvable ==
    [][/\ \A h \in DOMAIN OBJECTS : Has(OBJECTS', h)
       /\ \A i \in DOMAIN issued' : Has(OBJECTS', issued'[i])
       /\ (last'.op \in Setters /\ last'.args[1] \in Range(issued'))
            => last'.ret = Ok]_vars

C21_Witness ==
    /\ last.op = "removeObjectFromScene" /\ last.ret = Ok
    /\ last.args[1] \in Issued
    /\ Has(OBJECTS, last.args[1])
    /\ last.args[1] \notin scene
    /\ scene # {}

\* C22: addObjectToScene on a handle whose object is already in the scene,
\* and removeObjectFromScene on a handle whose object is not in the scene,
\* return the error value -1 and do not throw.
C22_RepeatedSceneCallFails ==
    [][/\ (/\ last'.op = "addObjectToScene"
           /\ initialized
           /\ Has(OBJECTS, last'.args[1])
           /\ last'.args[1] \in scene)
            => (last'.ret = Fail /\ ~last'.threw)
       /\ (/\ last'.op = "removeObjectFromScene"
           /\ initialized
           /\ Has(OBJECTS, last'.args[1])
           /\ last'.args[1] \notin scene)
            => (last'.ret = Fail /\ ~last'.threw)]_vars

\* C23: createObject(geometryKind, materialKind) returns a handle exactly
\* when geometryKind is one of 2001..2006 and materialKind is one of
\* 1001..1008, 1010..1012; for every other pair of integers, the swapped
\* pair included, it returns -1, stores no object and allocates no handle.
C23_ClosedKindSets ==
    [][last'.op = "createObject" =>
         IF /\ last'.args[1] \in {2001, 2002, 2003, 2004, 2005, 2006}
            /\ last'.args[2] \in {1001, 1002, 1003, 1004, 1005, 1006, 1007,
                                   1008, 1010, 1011, 1012}
         THEN /\ last'.ret = Some(nextObjId)
              /\ Has(OBJECTS', nextObjId) /\ ~Has(OBJECTS, nextObjId)
         ELSE /\ last'.ret = Fail
              /\ ~last'.threw
              /\ UNCHANGED <<OBJECTS, nextObjId, issued>>]_vars

C23_Witness ==
    /\ last.op = "createObject"
    /\ last.args = <<1001, 2001>>
    /\ last.ret = Fail
    /\ nextObjId = 1 /\ Has(OBJECTS, 0)

\* bit number b of the bitmask n
Bit(n, b) == (n \div 2^b) % 2

\* C24: for each mapped key (w, a, s, d, space on bits 0..4) its bit in the
\* value of getKeysPressed is 1 exactly when the latest event of that key
\* was a key-down, the mask has no other bit, getKeysPressed returns the
\* mask, and an event of an unmapped key changes no bit.
C24_KeyBits ==
    [][/\ Bit(keysPressed', 0) = 1 <=> recent'.w = "down"
       /\ Bit(keysPressed', 1) = 1 <=> recent'.a = "down"
       /\ Bit(keysPressed', 2) = 1 <=> recent'.s = "down"
       /\ Bit(keysPressed', 3) = 1 <=> recent'.d = "down"
       /\ Bit(keysPressed', 4) = 1 <=> recent'.space = "down"
       /\ keysPressed' \in 0..31
       /\ last'.op = "getKeysPressed" => last'.ret = Some(keysPressed)
       /\ (/\ last'.op \in {"onKeyDown", "onKeyUp"}
           /\ last'.args[1] \notin {"w", "a", "s", "d", "space"})
            => keysPressed' = keysPressed]_vars

C24_Witness ==
    /\ last.op = "getKeysPressed"
    /\ last.ret = Some(2^0 + 2^4)
    /\ recent.w = "down" /\ recent.space = "down"
    /\ recent.a = "up" /\ recent.d = "up" /\ recent.s = "none"

\* the two signed 16-bit halves of a 32-bit word
DecodeLow(word) == Signed16(word % 65536)
DecodeHigh(word) == (word - (word % 65536)) \div 65536

\* C25: getMouseMovement resets both accumulators, so a call right after
\* another one, without a mouse-move event between them, returns a word
\* that decodes to (0, 0), whatever the first call returned.
C25_DrainOnRead ==
    /\ last.op = "getMouseMovement"
         => mouseMovementX = 0 /\ mouseMovementY = 0
    /\ Len(reads) = 2
         => DecodeLow(reads[2]) = 0 /\ DecodeHigh(reads[2]) = 0

C25_Witness ==
    /\ last.op = "getMouseMovement"
    /\ Len(reads) = 2
    /\ DecodeLow(reads[1]) = 3 /\ DecodeHigh(reads[1]) = 4
    /\ last.ret = Some(reads[2])

\* C26: for accumulated x and y in -32768..32767 the word returned by
\* getMouseMovement is a 32-bit signed integer whose low half decodes to x
\* and whose high half decodes to y; the high half is that of the word for
\* (0, y) and the low half that of the word for (x, 0).
C26_PackedHalves ==
    [][(/\ last'.op = "getMouseMovement"
        /\ mouseMovementX \in -32768..32767
        /\ mouseMovementY \in -32768..32767)
         => LET word == last'.ret[1] IN
            /\ word \in (-2147483647 - 1)..2147483647
            /\ DecodeLow(word) = mouseMovementX
            /\ DecodeHigh(word) = mouseMovementY
            /\ word - (word % 65536) = mouseMovementY * 65536
            /\ word % 65536 = mouseMovementX % 65536]_vars

C26_Witness ==
    /\ last.op = "getMouseMovement"
    /\ last.ret = Some(-65536 - 1)
    /\ reads = <<-65536 - 1>>

\* C27: the import table handed to instantiation maps each of the nine names
\* the host binds to the host's function, also when the caller supplied an
\* import of that name, and keeps every other caller import as it was.
C27_HostImportsWin ==
    last.op = "runWasmModule" =>
      LET given == last.args[2]
          table == imports[1]
          bound == {"createObject", "createSprite", "setPosition",
                    "setRotation", "setScale", "addObjectToScene",
                    "removeObjectFromScene", "setSpriteAnimationOffset",
                    "loadTexture"}
      IN  /\ imports # None
          /\ DOMAIN table = DOMAIN given \cup bound
          /\ \A n \in bound : table[n] = "host"
          /\ \A n \in DOMAIN given \ bound : table[n] = given[n]

C27_Witness ==
    /\ last.op = "runWasmModule"
    /\ DOMAIN last.args[2] = {"log", "createObject"}
    /\ last.args[2]["createObject"] = "caller"
    /\ imports[1]["createObject"] = "host"
    /\ imports[1]["log"] = "caller"

\* the continuation of runWasmModule that has just run, and its module
Continued == last.op = "runWasmModule.then"
HostReady == host.scene /\ host.camera /\ host.renderer

\* C28: when instantiation fails, the instance has no function export step,
\* or the host's scene, camera or renderer is not set, runWasmModule throws
\* and its loop does not start: no step, no render and no frame request.
C28_SetupFailureRaises ==
    [][(/\ Continued'
        /\ \/ last'.args[1].result # "instance"
           \/ last'.args[1].step # "function"
           \/ ~HostReady)
         => /\ last'.threw
            /\ last'.ret = None
            /\ UNCHANGED frames]_vars

C28_Witness ==
    /\ Continued
    /\ last.threw
    /\ last.args[1] = [result |-> "instance", step |-> "number"]
    /\ frames = <<>>
    /\ imports # None

\* C29: after init(camera, scene, renderer) with three objects, a
\* runWasmModule whose module instantiates and exports a function step does
\* not throw and has started the frame loop.
C29_InitMakesReady ==
    (/\ Continued
     /\ last.args[3]
     /\ last.args[1] = [result |-> "instance", step |-> "function"])
      => /\ ~last.threw
         /\ last.args[2] = "running"
         /\ frames # <<>>

C38_SceneCallsReturnCodes ==
    last.op \in {"addObjectToScene", "removeObjectFromScene"}
      => /\ ~last.threw
         /\ last.ret \in {Ok, Fail}

\* C39: in every state the handles of the object registry are exactly
\* 0 .. nextObjId - 1, and they are the handles that were issued.
C39_RegistryDomain ==
    /\ DOMAIN OBJECTS = 0 .. (nextObjId - 1)
    /\ DOMAIN OBJECTS = Issued

C39_Witness ==
    /\ nextObjId = 2
    /\ DOMAIN OBJECTS = {0, 1}
    /\ last.op \in Creations /\ last.ret = Fail

\* C40: once the texture registry maps a handle to a texture, it maps that
\* handle to the same texture in every later state.
C40_HandleBoundOnce ==
    [][\A id \in DOMAIN TEXTURES :
         /\ Has(TEXTURES', id)
         /\ TEXTURES'[id].path = TEXTURES[id].path
         /\ TEXTURES'[id].userData = TEXTURES[id].userData]_vars

\* C33: createSprite leaves the texture stored in the texture registry as it
\* was: the registry texture's repeat and offset after a createSprite on a
\* texture with a grid are those before the call.
C33_RegistryTextureUntouched ==
    [][(last'.op = "createSprite" /\ last'.ret # Fail)
         => /\ TEXTURES'[last'.args[1]].repeat = TEXTURES[last'.args[1]].repeat
            /\ TEXTURES'[last'.args[1]].offset = TEXTURES[last'.args[1]].offset
       ]_vars

\* C34: from the return of createSprite on, the own texture of a sprite made
\* from a texture with grid (columns, rows) has repeat (1/columns, 1/rows);
\* so has every sprite on which setSpriteAnimationOffset can succeed.
C34_SpriteRepeat ==
    \A h \in DOMAIN OBJECTS :
      (/\ IsSprite(h)
       /\ Truthy(OBJECTS[h].map[1].userData.rows)
       /\ Truthy(OBJECTS[h].map[1].userData.columns))
        => /\ IsFraction(OBJECTS[h].map[1].repeat[1], 1,
                         OBJECTS[h].map[1].userData.columns[1])
           /\ IsFraction(OBJECTS[h].map[1].repeat[2], 1,
                         OBJECTS[h].map[1].userData.rows[1])

C34_Witness ==
    /\ last.op = "createSprite" /\ last.ret = Some(0)
    /\ OBJECTS[0].map[1].userData = [rows |-> Some(2), columns |-> Some(4)]
    /\ OBJECTS[0].map[1].repeat = <<<<1, 4>>, <<1, 2>>>>

\* the sum of component c of the movements in a sequence
RECURSIVE Sum(_, _)
Sum(seq, c) == IF seq = <<>> THEN 0 ELSE seq[1][c] + Sum(Tail(seq), c)

\* C35: the word returned by getMouseMovement decodes to the component-wise
\* sum of the movements received since the previous read (since the
\* creation of the context for the first read) when both sums are in
\* -32768..32767, and the read leaves nothing of them for the next read.
C35_ReadsSumOfMoves ==
    [][(/\ last'.op = "getMouseMovement"
        /\ Sum(moves, 1) \in -32768..32767
        /\ Sum(moves, 2) \in -32768..32767)
         => /\ DecodeLow(last'.ret[1]) = Sum(moves, 1)
            /\ DecodeHigh(last'.ret[1]) = Sum(moves, 2)
            /\ moves' = <<>>
            /\ mouseMovementX' = 0 /\ mouseMovementY' = 0]_vars

C35_Witness ==
    /\ last.op = "getMouseMovement"
    /\ DecodeLow(last.ret[1]) = 3 - 1
    /\ DecodeHigh(last.ret[1]) = 4 + 4
    /\ moves = <<>>

CameraOps == {"setCameraPosition", "cameraLookAt", "setBg", "render"}

\* C32: before init has been called, setCameraPosition, cameraLookAt, setBg
\* and render each return -1, do not throw and change no state.
C32_BeforeInit ==
    [][(last'.op \in CameraOps /\ ~initialized)
         => /\ last'.ret = Fail
            /\ ~last'.threw
            /\ UNCHANGED <<context, input, bridge>>]_vars

C32_Witness ==
    /\ ~initialized
    /\ last.op = "render"
    /\ last.ret = Fail
    /\ canvas = None
    /\ nextObjId = 1

ModuleCreations == {"module.createObject", "module.createSprite"}

\* C36: in the module-level build a successful createObject or createSprite
\* stores the new node in OBJECTS under the id it returns, so setPosition
\* with a returned id and (1, 2, 3) returns 0 and leaves the node under that
\* id at position (1, 2, 3).
C36_StoredUnderReturnedId ==
    [][/\ (last'.op \in ModuleCreations /\ last'.ret # Fail)
           => /\ Has(moduleOBJECTS', last'.ret[1])
              /\ moduleOBJECTS'[last'.ret[1]].serial = last'.ret[1]
       /\ (last'.op = "module.setPosition" /\ last'.args[1] \in moduleIssued)
           => /\ last'.ret = Ok
              /\ moduleOBJECTS'[last'.args[1]].serial = last'.args[1]
              /\ moduleOBJECTS'[last'.args[1]].position = last'.args[2]]_vars

WindowEvents == {"mousemove", "keydown", "keyup"}

\* C37: two contexts of separate createContext calls are independent: an
\* operation on one context leaves the other's object registry, texture
\* registry, loaded paths, counter, key bitmask and mouse accumulators as
\* they were, a context that is returned to is as it was left, and the
\* handles each context returns are 0, 1, 2, ... whatever the other has done.
C37_ContextsIndependent ==
    [][/\ (active' = active /\ last'.op \notin WindowEvents /\ parked # None)
           => parked' = parked
       /\ (active' # active)
           => /\ ContextState' = parked[1]
              /\ parked' = Some(ContextState)
       /\ nextObjId' = Len(issued')
       /\ parked' # None => parked'[1].nextObjId = Len(parked'[1].issued)
       /\ (last'.op = "createObject" /\ active' = active /\ last'.ret # Fail)
           => last'.ret = Some(Len(issued))]_vars

C37_Witness ==
    /\ active = 2
    /\ parked # None
    /\ parked[1].nextObjId = 2
    /\ Has(parked[1].TEXTURES, 1)
    /\ parked[1].mouseMovementX = 3
    /\ mouseMovementX = 0
    /\ last.op = "createObject"
    /\ last.ret = Some(0)
    /\ nextObjId = 1
    /\ TEXTURES = <<>>

=============================================================================
